---- MODULE Spec2Model ----
(***************************************************************************)
(* Model of the mpstats niche analyzer: DataLoader (src/src/data_loader.py),*)
(* NicheScorer (src/src/niche_scorer.py), TableFormatter                    *)
(* (src/src/table_formatter.py) and process_uploaded_file (src/app.py).     *)
(*                                                                         *)
(* Column and metric names are the source's names transliterated to ASCII: *)
(*   Predmety            the niche name column                             *)
(*   Vyruchka            revenue                                           *)
(*   Srednyaya_cena      average price with sales                          *)
(*   Oborachivaemost     turnover, days                                    *)
(*   pct_tovarov         "% goods with movement"   (the scorer's header)   *)
(*   pct_prodavcov       "% sellers with sales"    (the scorer's header)   *)
(*   Procent_tovarov     "Procent goods with movement" (the loader's list) *)
(*   Procent_prodavcov   "Procent sellers with sales"  (the loader's list) *)
(*   Prodavcy            sellers with sales                                *)
(***************************************************************************)
EXTENDS Integers, Sequences, FiniteSets, TLC

VARIABLES
    pc,                 \* position inside process_uploaded_file / load_excel_file
    sheet,              \* the uploaded sheet as pd.read_excel parsed it
    self_df,            \* DataLoader.df
    validation_errors,  \* DataLoader.validation_errors
    df,                 \* process_uploaded_file: df (what load_excel_file returned)
    df_scored,          \* process_uploaded_file: df_scored
    df_top,             \* process_uploaded_file: df_top
    df_display,         \* process_uploaded_file: df_display
    scoring_summary,    \* process_uploaded_file: scoring_summary
    st_errors,          \* messages passed to st.error, in order
    shown,              \* what show_results has rendered
    executed,           \* the pipeline stages that have run, in order
    call,               \* a direct call of one scorer function (function-level runs)
    result              \* what that call returned

vars == << pc, sheet, self_df, validation_errors, df, df_scored, df_top, df_display,
           scoring_summary, st_errors, shown, executed, call, result >>

----------------------------------------------------------------------------
(* Cell values of a parsed sheet: a missing cell (NaN), a number, a text.  *)

NaN == [k |-> "nan", n |-> 0, s |-> ""]
Num(x) == [k |-> "num", n |-> x, s |-> ""]
Str(t) == [k |-> "str", n |-> 0, s |-> t]

\* pd.isna on a scalar
isna(value) == value.k = "nan"

\* None / "no table"
None == [none |-> TRUE]

Range(seq) == {seq[i] : i \in DOMAIN seq}

RECURSIVE SumSeq(_)
SumSeq(seq) == IF seq = << >> THEN 0 ELSE Head(seq) + SumSeq(Tail(seq))

Min2(a, b) == IF a <= b THEN a ELSE b

----------------------------------------------------------------------------
(* Configuration: config/scoring_weights.py.                               *)

Rule(lo, hi, w) == [min |-> lo, max |-> hi, weight |-> w]

\* metric name -> rules (min, max) -> weight, in the dict's insertion order
SCORING_WEIGHTS ==
    [ vyruchka |->
        << Rule(0, 1000000, 3), Rule(1000000, 10000000, 8),
           Rule(10000000, 1000000000, 15) >>,
      srednyaya_cena_s_prodazhami |->
        << Rule(0, 500, 5), Rule(500, 3000, 15), Rule(3000, 100000, 10) >>,
      oborachivaemost |->
        << Rule(0, 30, 15), Rule(0, 90, 8), Rule(90, 365, 2) >>,
      procent_tovarov_s_dvizheniem |->
        << Rule(0, 30, 3), Rule(30, 60, 8), Rule(60, 100, 15) >>,
      procent_prodavcov_s_prodazhami |->
        << Rule(0, 25, 4), Rule(25, 50, 10), Rule(50, 100, 15) >>,
      vyruchka_na_prodavca |->
        << Rule(0, 10000, 2), Rule(10000, 100000, 9),
           Rule(100000, 10000000, 15) >> ]

Category(lo, hi, label, color, emoji) ==
    [min |-> lo, max |-> hi, label |-> label, color |-> color, emoji |-> emoji]

\* the values of the COLOR_CATEGORIES dict, in insertion order
COLOR_CATEGORIES ==
    << Category(70, 90, "Otlichnye nishi", "#22c55e", "green"),
       Category(50, 69, "Horoshie nishi", "#eab308", "yellow"),
       Category(30, 49, "Srednie nishi", "#f97316", "orange"),
       Category(0, 29, "Slabye nishi", "#ef4444", "red") >>

REQUIRED_COLUMNS ==
    << "Predmety", "Vyruchka", "Srednyaya_cena", "Oborachivaemost",
       "pct_tovarov", "pct_prodavcov", "Prodavcy" >>

----------------------------------------------------------------------------
(* NicheScorer: per-metric score and category.                             *)

\* a scan whose interval test is min <= value <= max
RECURSIVE ScanWeights_closed(_, _, _)
ScanWeights_closed(weights_config, v, i) ==
    IF i > Len(weights_config) THEN 1
    ELSE IF weights_config[i].min <= v /\ v <= weights_config[i].max
         THEN weights_config[i].weight
         ELSE ScanWeights_closed(weights_config, v, i + 1)

\* for (min_val, max_val), weight in weights_config.items(): ... return 1
RECURSIVE ScanWeights(_, _, _)
ScanWeights(weights_config, v, i) ==
    IF i > Len(weights_config) THEN 1
    ELSE IF weights_config[i].min <= v /\ v < weights_config[i].max
         THEN weights_config[i].weight
         ELSE ScanWeights(weights_config, v, i + 1)

\* "value < 0" on a text raises TypeError (pd.isna of a text is False)
get_score_raises(value) == value.k = "str"

get_score_for_metric(metric_name, value) ==
    IF isna(value) \/ value.n < 0 THEN 0
    ELSE IF metric_name \notin DOMAIN SCORING_WEIGHTS THEN 0
    ELSE ScanWeights(SCORING_WEIGHTS[metric_name], value.n, 1)

\* the loop shared by _get_category_info / _get_category_color / _get_category_emoji:
\* the index of the first category whose range holds the score, 0 if none
RECURSIVE ScanCategories(_, _)
ScanCategories(score, i) ==
    IF i > Len(COLOR_CATEGORIES) THEN 0
    ELSE IF COLOR_CATEGORIES[i].min <= score /\ score <= COLOR_CATEGORIES[i].max
         THEN i
         ELSE ScanCategories(score, i + 1)

get_category_info(score) ==
    LET i == ScanCategories(score, 1)
    IN  IF i = 0 THEN "Neopredeleno" ELSE COLOR_CATEGORIES[i].label

\* a colour lookup whose range test is min <= score < max
get_category_color_exclusive(score) ==
    LET S == {i \in DOMAIN COLOR_CATEGORIES :
                 COLOR_CATEGORIES[i].min <= score /\ score < COLOR_CATEGORIES[i].max}
    IN  IF S = {} THEN "#6b7280"
        ELSE COLOR_CATEGORIES[CHOOSE i \in S : \A j \in S : i <= j].color

get_category_color(score) ==
    LET i == ScanCategories(score, 1)
    IN  IF i = 0 THEN "#6b7280" ELSE COLOR_CATEGORIES[i].color

get_category_emoji(score) ==
    LET i == ScanCategories(score, 1)
    IN  IF i = 0 THEN "white" ELSE COLOR_CATEGORIES[i].emoji

\* df_scored['Kategoriya'], ['Cvet_kategorii'], ['Emodzi'] of a row, each
\* the matching function applied to the row's 'Obshchiy_ball'
category_columns(score) ==
    [Kategoriya     |-> get_category_info(score),
     Cvet_kategorii |-> get_category_color(score),
     Emodzi         |-> get_category_emoji(score)]

----------------------------------------------------------------------------
(* Tables: [columns |-> set of headers, rows |-> sequence of rows, index   *)
(* |-> the rows' labels]; a row is a function from the table's columns to  *)
(* values.                                                                 *)

\* the default RangeIndex 0..n-1 (pd.read_excel, reset_index(drop=True))
RangeIndex(n) == [i \in 1..n |-> i - 1]

Table(columns, rows) ==
    [columns |-> columns, rows |-> rows, index |-> RangeIndex(Len(rows))]

\* an emptiness test that only a sheet without columns meets
empty_no_columns(t) == t.columns = {}

\* DataFrame.empty: no rows or no columns
empty(t) == t.rows = << >> \/ t.columns = {}

----------------------------------------------------------------------------
(* NicheScorer.calculate_niche_scores                                      *)

\* row['Vyruchka'] / row['Prodavcy'] if row['Prodavcy'] > 0 else 0.
\* The quotient is kept as its floor: every rule bound is an integer, so a
\* value and its floor fall in the same interval and on the same side of 0.
revenue_per_seller(row) ==
    IF row["Prodavcy"].k = "num" /\ row["Prodavcy"].n > 0
    THEN IF isna(row["Vyruchka"]) THEN NaN
         ELSE Num(row["Vyruchka"].n \div row["Prodavcy"].n)
    ELSE Num(0)

\* the raw columns calculate_niche_scores reads
ScorerColumns ==
    {"Vyruchka", "Prodavcy", "Srednyaya_cena", "Oborachivaemost",
     "pct_tovarov", "pct_prodavcov"}

\* a missing column is a KeyError; comparing or dividing a text is a TypeError
calculate_raises(t) ==
    \/ t.rows # << >> /\ ~(ScorerColumns \subseteq t.columns)
    \/ \E i \in DOMAIN t.rows :
          \E c \in ScorerColumns \cap t.columns : t.rows[i][c].k = "str"

\* whether the call raises. On a table without rows DataFrame.apply(axis=1)
\* never calls the lambda on a row of the table: depending on the pandas
\* release it answers an empty Series (the columns are added, the call
\* returns) or a copy of the frame, whose assignment to one column raises
\* ValueError. No release is pinned, so both outcomes are kept.
calculate_outcomes(t) ==
    IF t.rows = << >> THEN {TRUE, FALSE} ELSE {calculate_raises(t)}

\* the six Ball_* columns of one row, in the order they are added
metric_scores(row) ==
    << get_score_for_metric("vyruchka", row["Vyruchka"]),
       get_score_for_metric("srednyaya_cena_s_prodazhami", row["Srednyaya_cena"]),
       get_score_for_metric("oborachivaemost", row["Oborachivaemost"]),
       get_score_for_metric("procent_tovarov_s_dvizheniem", row["pct_tovarov"]),
       get_score_for_metric("procent_prodavcov_s_prodazhami", row["pct_prodavcov"]),
       get_score_for_metric("vyruchka_na_prodavca", revenue_per_seller(row)) >>

BallColumns ==
    << "Ball_Vyruchka", "Ball_Cena", "Ball_Oborachivaemost",
       "Ball_Tovary_dvizhenie", "Ball_Prodavcy", "Ball_Vyruchka_prodavca" >>

\* a total that leaves out the last Ball_* column
total_score_five(balls) ==
    balls[1] + balls[2] + balls[3] + balls[4] + balls[5]

\* df_scored['Obshchiy_ball'] = the sum of the six Ball_* columns
total_score(balls) ==
    balls[1] + balls[2] + balls[3] + balls[4] + balls[5] + balls[6]

score_row(row) ==
    LET balls == metric_scores(row)
        total == total_score(balls)
    IN  [c \in DOMAIN row \cup {"Vyruchka_na_prodavca", "Obshchiy_ball",
                               "Kategoriya", "Cvet_kategorii", "Emodzi"}
                          \cup Range(BallColumns) |->
            IF c = "Vyruchka_na_prodavca" THEN revenue_per_seller(row)
            ELSE IF c = "Obshchiy_ball" THEN total
            ELSE IF c \in DOMAIN category_columns(total)
                 THEN category_columns(total)[c]
            ELSE IF c \in Range(BallColumns)
                 THEN balls[CHOOSE j \in 1..6 : BallColumns[j] = c]
            ELSE row[c]]

calculate_niche_scores(t) ==
    Table(t.columns \cup {"Vyruchka_na_prodavca", "Obshchiy_ball", "Kategoriya",
                          "Cvet_kategorii", "Emodzi"} \cup Range(BallColumns),
          [i \in DOMAIN t.rows |-> score_row(t.rows[i])])

----------------------------------------------------------------------------
(* NicheScorer.get_top_niches                                              *)

Permutations1(n) ==
    {p \in [1..n -> 1..n] : \A i, j \in 1..n : p[i] = p[j] => i = j}

\* df_scored.sort_values('Obshchiy_ball', ascending=False): kind defaults to
\* 'quicksort', which is not stable, so rows of equal score may come out in
\* any order. Each result is a permutation of the row positions.
sort_values_desc(t) ==
    {p \in Permutations1(Len(t.rows)) :
        \A i \in 1..(Len(t.rows) - 1) :
            t.rows[p[i]]["Obshchiy_ball"] >= t.rows[p[i + 1]]["Obshchiy_ball"]}

\* a head that truncates nothing
head_keep_all(seq, n) == seq

\* .head(n)
head(seq, n) == SubSeq(seq, 1, Min2(n, Len(seq)))


\* The configured maximum number of ranked results (MAX_RESULTS, 30 by
\* default), scaled down so that tables longer than it are explored.
MAX_RESULTS == 2

\* sort, head(MAX_RESULTS), reset_index(drop=True), 'Poziciya' = index + 1;
\* p is the order sort_values produced
get_top_niches(t, p) ==
    LET sorted == [i \in DOMAIN t.rows |-> t.rows[p[i]]]
        top    == head(sorted, MAX_RESULTS)
    IN  Table(t.columns \cup {"Poziciya"},
              [i \in DOMAIN top |->
                  [c \in DOMAIN top[i] \cup {"Poziciya"} |->
                      IF c = "Poziciya" THEN i ELSE top[i][c]]])

----------------------------------------------------------------------------
(* NicheScorer.get_score_distribution / get_scoring_summary                *)

Totals(t) == [i \in DOMAIN t.rows |-> t.rows[i]["Obshchiy_ball"]]

\* len(df_scored[(score >= lo) & (score <= hi)])
count_between(t, lo, hi) ==
    Len(SelectSeq(Totals(t), LAMBDA x : x >= lo /\ x <= hi))

\* a distribution counted over the first MAX_RESULTS rows only
get_score_distribution_top(t) ==
    [i \in DOMAIN COLOR_CATEGORIES |->
        [label |-> COLOR_CATEGORIES[i].label,
         count |-> count_between(Table(t.columns, head(t.rows, MAX_RESULTS)),
                                 COLOR_CATEGORIES[i].min, COLOR_CATEGORIES[i].max)]]

\* one (label, count) entry per category, in the dict's insertion order
get_score_distribution(t) ==
    [i \in DOMAIN COLOR_CATEGORIES |->
        [label |-> COLOR_CATEGORIES[i].label,
         count |-> count_between(t, COLOR_CATEGORIES[i].min,
                                    COLOR_CATEGORIES[i].max)]]

\* Series.idxmax(): the first position holding the maximum
RECURSIVE idxmax_from(_, _, _)
idxmax_from(totals, i, best) ==
    IF i > Len(totals) THEN best
    ELSE IF totals[i] > totals[best] THEN idxmax_from(totals, i + 1, i)
         ELSE idxmax_from(totals, i + 1, best)

\* the last position holding the maximum
idxmax_last(totals) ==
    CHOOSE i \in DOMAIN totals :
        /\ \A j \in DOMAIN totals : totals[j] <= totals[i]
        /\ \A j \in (i + 1)..Len(totals) : totals[j] < totals[i]

idxmax(totals) == idxmax_from(totals, 2, 1)

RECURSIVE idxmin_from(_, _, _)
idxmin_from(totals, i, best) ==
    IF i > Len(totals) THEN best
    ELSE IF totals[i] < totals[best] THEN idxmin_from(totals, i + 1, i)
         ELSE idxmin_from(totals, i + 1, best)

\* the empty dict {}
EmptyDict == [x \in {} |-> 0]

get_scoring_summary(t) ==
    IF t.rows = << >> THEN EmptyDict
    ELSE [total_niches     |-> Len(t.rows),
          avg_score        |-> [sum |-> SumSeq(Totals(t)), count |-> Len(t.rows)],
          max_score        |-> Totals(t)[idxmax(Totals(t))],
          min_score        |-> Totals(t)[idxmin_from(Totals(t), 2, 1)],
          top_score_niche  |-> t.rows[idxmax(Totals(t))]["Predmety"],
          excellent_niches |-> Len(SelectSeq(Totals(t), LAMBDA x : x >= 70)),
          good_niches      |-> Len(SelectSeq(Totals(t), LAMBDA x : x >= 50 /\ x < 70)),
          distribution     |-> get_score_distribution(t)]

----------------------------------------------------------------------------
(* TableFormatter.format_display_table: the selected and renamed columns.  *)
(* The number, the name, the score and the category with its emoji are     *)
(* modelled; the six numeric columns rendered as text are not.             *)

format_display_table(t) ==
    [i \in DOMAIN t.rows |->
        [Nomer  |-> t.rows[i]["Poziciya"],
         Nisha  |-> t.rows[i]["Predmety"],
         Ball   |-> t.rows[i]["Obshchiy_ball"],
         Ocenka |-> << t.rows[i]["Emodzi"], t.rows[i]["Kategoriya"] >>]]

----------------------------------------------------------------------------
(* DataLoader._validate_data and its checks                                *)

\* the list both _check_data_types and _clean_data spell out
numeric_columns ==
    << "Vyruchka", "Srednyaya_cena", "Oborachivaemost",
       "Procent_tovarov", "Procent_prodavcov", "Prodavcy" >>

\* a check that reports the first missing header only
check_required_columns_first(t) ==
    head(SelectSeq(REQUIRED_COLUMNS, LAMBDA c : c \notin t.columns), 1)

check_required_columns(t) ==
    SelectSeq(REQUIRED_COLUMNS, LAMBDA c : c \notin t.columns)

\* self.df[col].isna().all()
check_empty_columns(t) ==
    SelectSeq(REQUIRED_COLUMNS,
              LAMBDA c : c \in t.columns
                         /\ \A i \in DOMAIN t.rows : isna(t.rows[i][c]))

\* pd.to_numeric(..., errors='coerce') raises for no cell value
to_numeric_raises(t, c) == FALSE

check_data_types(t) ==
    SelectSeq(numeric_columns,
              LAMBDA c : c \in t.columns /\ to_numeric_raises(t, c))

Error(kind, cols) == [kind |-> kind, cols |-> cols]

\* a validation that stops at the first check that fails
accumulated_errors_failfast(t) ==
    IF check_required_columns(t) # << >>
    THEN << Error("missing_columns", check_required_columns(t)) >>
    ELSE IF check_empty_columns(t) # << >>
    THEN << Error("empty_columns", check_empty_columns(t)) >>
    ELSE IF check_data_types(t) # << >>
    THEN << Error("invalid_types", check_data_types(t)) >>
    ELSE << >>

\* the part of _validate_data after the emptiness test
accumulated_errors(t) ==
    (IF check_required_columns(t) # << >>
        THEN << Error("missing_columns", check_required_columns(t)) >> ELSE << >>)
    \o (IF check_empty_columns(t) # << >>
        THEN << Error("empty_columns", check_empty_columns(t)) >> ELSE << >>)
    \o (IF check_data_types(t) # << >>
        THEN << Error("invalid_types", check_data_types(t)) >> ELSE << >>)

\* the value of self.validation_errors when _validate_data returns
validate_data(t) ==
    IF t = None \/ empty(t) THEN << Error("empty_file", << >>) >>
    ELSE accumulated_errors(t)

----------------------------------------------------------------------------
(* DataLoader._clean_data                                                  *)

\* the texts that parse as a number
ParseNumber == [s \in {"12"} |-> 12]

\* pd.to_numeric(errors='coerce') on one cell
to_numeric(cell) ==
    IF cell.k = "str"
    THEN IF cell.s \in DOMAIN ParseNumber THEN Num(ParseNumber[cell.s]) ELSE NaN
    ELSE cell

\* str.strip() on the names of the model: a blank name strips to ''
strip(s) == IF s \in {"", " ", "  "} THEN "" ELSE s

\* for col in numeric_columns: if col in df_clean.columns: to_numeric
coerce_numeric(t) ==
    [i \in DOMAIN t.rows |->
        [c \in DOMAIN t.rows[i] |->
            IF c \in Range(numeric_columns) \cap t.columns
            THEN to_numeric(t.rows[i][c]) ELSE t.rows[i][c]]]

\* dropna(subset=['Predmety']) then [df['Predmety'].str.strip() != '']:
\* .str.strip() of a cell that is not a text is NaN, and NaN != '' holds
drop_empty_names(rows) ==
    SelectSeq(rows,
              LAMBDA r : ~isna(r["Predmety"])
                         /\ (r["Predmety"].k = "str" => strip(r["Predmety"].s) # ""))

\* the .str accessor raises AttributeError on a column that holds no text
\* (read_excel gives such a column a numeric dtype)
clean_raises(t) ==
    /\ "Predmety" \in t.columns
    /\ t.rows # << >>
    /\ \A i \in DOMAIN t.rows : t.rows[i]["Predmety"].k # "str"

\* a fill that leaves the missing cell missing
fillna0_skip(cell) == cell

\* Series.fillna(0) on one cell
fillna0(cell) == IF isna(cell) THEN Num(0) ELSE cell

\* for col in numeric_columns: if col in df_clean.columns: fillna(0)
fill_missing(rows, columns) ==
    [i \in DOMAIN rows |->
        [c \in DOMAIN rows[i] |->
            IF c \in Range(numeric_columns) \cap columns
            THEN fillna0(rows[i][c]) ELSE rows[i][c]]]

\* a drop_duplicates that drops nothing
drop_duplicates_off(rows, seen) == rows

\* drop_duplicates(subset=['Predmety'], keep='first')
RECURSIVE drop_duplicates(_, _)
drop_duplicates(rows, seen) ==
    IF rows = << >> THEN << >>
    ELSE IF Head(rows)["Predmety"] \in seen
         THEN drop_duplicates(Tail(rows), seen)
         ELSE << Head(rows) >>
              \o drop_duplicates(Tail(rows), seen \cup {Head(rows)["Predmety"]})

\* the row labels of the frame, carried through the filters as one more cell
with_index(t) ==
    [i \in DOMAIN t.rows |->
        [c \in DOMAIN t.rows[i] \cup {"_index"} |->
            IF c = "_index" THEN Num(t.index[i]) ELSE t.rows[i][c]]]

without_index(rows) ==
    [i \in DOMAIN rows |-> [c \in DOMAIN rows[i] \ {"_index"} |-> rows[i][c]]]

\* df_clean.reset_index(drop=True)
reset_index(rows) == RangeIndex(Len(rows))

clean_data(t) ==
    LET coerced == coerce_numeric([t EXCEPT !.rows = with_index(t)])
        named   == IF "Predmety" \in t.columns
                   THEN drop_empty_names(coerced) ELSE coerced
        filled  == fill_missing(named, t.columns)
        unique  == IF "Predmety" \in t.columns
                   THEN drop_duplicates(filled, {}) ELSE filled
    IN  [columns |-> t.columns, rows |-> without_index(unique),
         index |-> reset_index(unique)]

----------------------------------------------------------------------------
(* The sheets pd.read_excel may hand over.                                 *)

\* the longest sheet explored by the whole-pipeline specification
MaxRows == 3

\* the longest cleaned table explored by the scorer specification
MaxRecs == 3

AllColumns == Range(REQUIRED_COLUMNS)

\* the record of section 8 of the specification's concrete scenario
GoodRow(name) ==
    [Predmety |-> name, Vyruchka |-> Num(5000000), Srednyaya_cena |-> Num(1500),
     Oborachivaemost |-> Num(20), pct_tovarov |-> Num(80),
     pct_prodavcov |-> Num(40), Prodavcy |-> Num(100)]

NameCells == {NaN, Str(" "), Str("a"), Str("b"), Num(7)}
RevenueCells == {NaN, Str("x"), Str("12"), Num(-5), Num(5000000)}
PercentCells == {NaN, Str("x"), Num(80)}

RowPool ==
    {GoodRow(n) : n \in NameCells}
    \cup {[GoodRow(Str("a")) EXCEPT !.Vyruchka = v] : v \in RevenueCells}
    \cup {[GoodRow(Str("a")) EXCEPT !.pct_tovarov = p] : p \in PercentCells}

SeqsUpTo(S, n) == UNION {[1..k -> S] : k \in 0..n}

\* the sets of headers a sheet may lack
MissingChoices ==
    {{}, {"Vyruchka"}, {"Predmety"}, {"pct_tovarov", "Prodavcy"}, AllColumns}

Restrict(rows, columns) ==
    [i \in DOMAIN rows |-> [c \in columns |-> rows[i][c]]]

Inputs ==
    {Table(AllColumns \ m, Restrict(rows, AllColumns \ m)) :
        rows \in SeqsUpTo(RowPool, MaxRows), m \in MissingChoices}

\* cleaned tables: unique non-empty names, numbers in the columns _clean_data
\* fills, raw cells in the two percent columns it leaves alone
NameSeq == << "a", "b", "c", "d", "e", "f" >>

CleanRowPool ==
    {[GoodRow(NaN) EXCEPT !.Vyruchka = v, !.pct_tovarov = p, !.Prodavcy = q] :
        v \in {Num(-5), Num(5000000)}, p \in {NaN, Num(80)},
        q \in {Num(0), Num(100)}}
    \cup {[Predmety |-> NaN, Vyruchka |-> Num(0), Srednyaya_cena |-> Num(-1),
           Oborachivaemost |-> Num(400), pct_tovarov |-> NaN,
           pct_prodavcov |-> Num(100), Prodavcy |-> Num(0)]}

CleanTables ==
    {Table(AllColumns,
           [i \in DOMAIN rows |-> [rows[i] EXCEPT !.Predmety = Str(NameSeq[i])]]) :
        rows \in SeqsUpTo(CleanRowPool, MaxRecs)}

----------------------------------------------------------------------------
(* The run of process_uploaded_file (src/app.py) as a state machine.       *)

Init ==
    /\ pc = "start"
    /\ sheet = None
    /\ self_df = None
    /\ validation_errors = << >>
    /\ df = None
    /\ df_scored = None
    /\ df_top = None
    /\ df_display = None
    /\ scoring_summary = None
    /\ st_errors = << >>
    /\ shown = None
    /\ executed = << >>
    /\ call = None
    /\ result = None

\* load_excel_file: self.df = pd.read_excel(uploaded_file)
ReadExcel ==
    /\ pc = "start"
    /\ \E t \in Inputs : sheet' = t /\ self_df' = t
    /\ pc' = "validate"
    /\ executed' = Append(executed, "read_excel")
    /\ UNCHANGED << validation_errors, df, df_scored, df_top, df_display,
                    scoring_summary, st_errors, shown, call, result >>

\* load_excel_file: pd.read_excel raises; except: st.error(...); return None
ReadExcelRaises ==
    /\ pc = "start"
    /\ st_errors' = Append(st_errors, Error("load_exception", << >>))
    /\ pc' = "loaded"
    /\ executed' = Append(executed, "read_excel")
    /\ UNCHANGED << sheet, self_df, validation_errors, df, df_scored, df_top, df_display,
                    scoring_summary, shown, call, result >>

\* a load_excel_file that cleans and returns the table whatever
\* _validate_data answered
ValidateData_ignored ==
    /\ pc = "validate"
    /\ validation_errors' = validate_data(self_df)
    /\ pc' = "clean"
    /\ st_errors' = st_errors \o validate_data(self_df)
    /\ executed' = Append(executed, "validate")
    /\ UNCHANGED << sheet, self_df, df, df_scored, df_top, df_display,
                    scoring_summary, shown, call, result >>

\* load_excel_file: if self._validate_data(): ... else: return None
ValidateData ==
    /\ pc = "validate"
    /\ validation_errors' = validate_data(self_df)
    /\ IF validate_data(self_df) = << >>
       THEN /\ pc' = "clean"
            /\ st_errors' = st_errors
       ELSE /\ pc' = "loaded"
            /\ st_errors' =
                 IF self_df = None \/ empty(self_df) THEN st_errors
                 ELSE st_errors \o validate_data(self_df)
    /\ executed' = Append(executed, "validate")
    /\ UNCHANGED << sheet, self_df, df, df_scored, df_top, df_display, scoring_summary,
                    shown, call, result >>

\* a _clean_data that works on the frame it is given instead of a copy
CleanData_inplace ==
    /\ pc = "clean"
    /\ IF clean_raises(self_df)
       THEN /\ st_errors' = Append(st_errors, Error("load_exception", << >>))
            /\ UNCHANGED << sheet, self_df, df >>
       ELSE /\ sheet' = clean_data(self_df)
            /\ self_df' = clean_data(self_df)
            /\ df' = clean_data(self_df)
            /\ st_errors' = st_errors
    /\ pc' = "loaded"
    /\ executed' = Append(executed, "clean")
    /\ UNCHANGED << validation_errors, df_scored, df_top, df_display,
                    scoring_summary, shown, call, result >>

\* load_excel_file: self.df = self._clean_data(self.df); return self.df.
\* _clean_data works on df.copy(): the parsed frame (sheet) stays as read
CleanData ==
    /\ pc = "clean"
    /\ IF clean_raises(self_df)
       THEN /\ st_errors' = Append(st_errors, Error("load_exception", << >>))
            /\ UNCHANGED << sheet, self_df, df >>
       ELSE /\ self_df' = clean_data(self_df)
            /\ df' = clean_data(self_df)
            /\ st_errors' = st_errors
    /\ pc' = "loaded"
    /\ executed' = Append(executed, "clean")
    /\ UNCHANGED << sheet, validation_errors, df_scored, df_top, df_display,
                    scoring_summary, shown, call, result >>

\* a process_uploaded_file that returns on df is None without a message
LoadFailed_silent ==
    /\ pc = "loaded"
    /\ df = None
    /\ pc' = "done"
    /\ UNCHANGED << sheet, self_df, validation_errors, df, df_scored, df_top, df_display,
                    scoring_summary, st_errors, shown, executed, call, result >>

\* process_uploaded_file: if df is None: st.error(...); return
LoadFailed ==
    /\ pc = "loaded"
    /\ df = None
    /\ st_errors' = Append(st_errors, Error("load_failed", << >>))
    /\ pc' = "done"
    /\ UNCHANGED << sheet, self_df, validation_errors, df, df_scored, df_top, df_display,
                    scoring_summary, shown, executed, call, result >>

\* process_uploaded_file: df_scored = scorer.calculate_niche_scores(df)
CalculateScores ==
    /\ pc = "loaded"
    /\ df # None
    /\ \E raises \in calculate_outcomes(df) :
          IF raises
          THEN /\ pc' = "except"
               /\ UNCHANGED df_scored
          ELSE /\ pc' = "top"
               /\ df_scored' = calculate_niche_scores(df)
    /\ executed' = Append(executed, "score")
    /\ UNCHANGED << sheet, self_df, validation_errors, df, df_top, df_display,
                    scoring_summary, st_errors, shown, call, result >>

\* process_uploaded_file: df_top = scorer.get_top_niches(df_scored)
GetTopNiches ==
    /\ pc = "top"
    /\ \E p \in sort_values_desc(df_scored) :
          df_top' = get_top_niches(df_scored, p)
    /\ pc' = "format"
    /\ executed' = Append(executed, "rank")
    /\ UNCHANGED << sheet, self_df, validation_errors, df, df_scored, df_display,
                    scoring_summary, st_errors, shown, call, result >>

\* process_uploaded_file: df_display = formatter.format_display_table(df_top)
FormatDisplay ==
    /\ pc = "format"
    /\ df_display' = [rows |-> format_display_table(df_top)]
    /\ pc' = "summary"
    /\ executed' = Append(executed, "format")
    /\ UNCHANGED << sheet, self_df, validation_errors, df, df_scored, df_top,
                    scoring_summary, st_errors, shown, call, result >>

\* process_uploaded_file: scoring_summary = scorer.get_scoring_summary(df_scored)
GetScoringSummary ==
    /\ pc = "summary"
    /\ scoring_summary' = get_scoring_summary(df_scored)
    /\ pc' = "show"
    /\ executed' = Append(executed, "summary")
    /\ UNCHANGED << sheet, self_df, validation_errors, df, df_scored, df_top, df_display,
                    st_errors, shown, call, result >>

\* the settings of the three filter widgets when show_results runs: the
\* defaults, a minimum score, a category, a search term
Widgets ==
    {[min_score |-> 0,  category |-> "Vse",             search_term |-> ""],
     [min_score |-> 70, category |-> "Vse",             search_term |-> ""],
     [min_score |-> 0,  category |-> "Otlichnye nishi", search_term |-> ""],
     [min_score |-> 0,  category |-> "Vse",             search_term |-> "a"]}

\* the options of the category selectbox: 'Vse' + list(distribution.keys())
category_options(distribution) ==
    {"Vse"} \cup {distribution[i].label : i \in DOMAIN distribution}

\* Series.str.contains(search_term, case=False, na=False) on one cell; the
\* names and the search terms of the model are single letters, for which
\* containing is being equal; a cell that is not a text gives na, so False
str_contains(cell, search_term) == cell.k = "str" /\ cell.s = search_term

\* apply_filters raises: with a search term, .str on a name column that
\* holds no text raises AttributeError
apply_filters_raises(df_original, w) ==
    /\ w.search_term # ""
    /\ df_original.rows # << >>
    /\ \A i \in DOMAIN df_original.rows :
           df_original.rows[i]["Predmety"].k # "str"

\* apply_filters: the rows of df_display whose row of df_original passes the
\* three masks, then reset_index(drop=True)
apply_filters(display_rows, df_original, w) ==
    LET mask(i) ==
            /\ df_original.rows[i]["Obshchiy_ball"] >= w.min_score
            /\ (w.category # "Vse"
                    => df_original.rows[i]["Kategoriya"] = w.category)
            /\ (w.search_term # ""
                    => str_contains(df_original.rows[i]["Predmety"], w.search_term))
        keep == SelectSeq([i \in DOMAIN display_rows |-> i], mask)
    IN  [i \in DOMAIN keep |-> display_rows[keep[i]]]

\* show_results(df_display, df_top, scoring_summary, scorer): the success
\* box, the summary metrics, the distribution chart, the filter widgets, then
\* the filtered table (or the nothing-matches warning) and the best niche;
\* what was rendered before apply_filters raised stays on the page
ShowResults ==
    /\ pc = "show"
    /\ \E w \in Widgets :
          LET distribution == IF "distribution" \in DOMAIN scoring_summary
                              THEN scoring_summary["distribution"] ELSE << >>
              rendered ==
                  [total_niches |-> IF "total_niches" \in DOMAIN scoring_summary
                                    THEN scoring_summary["total_niches"] ELSE 0,
                   metrics      |-> DOMAIN scoring_summary # {},
                   distribution |-> distribution,
                   widgets      |-> w,
                   filtered     |-> FALSE,
                   table        |-> << >>,
                   warning      |-> FALSE,
                   top_niche    |-> NaN]
              df_filtered == apply_filters(df_display.rows, df_top, w)
          IN  /\ w.category \in category_options(distribution)
              /\ IF apply_filters_raises(df_top, w)
                 THEN /\ shown' = rendered
                      /\ pc' = "except"
                 ELSE /\ shown' =
                           [rendered EXCEPT
                              !.filtered  = TRUE,
                              !.table     = df_filtered,
                              !.warning   = (df_filtered = << >>),
                              !.top_niche = IF df_filtered = << >> THEN NaN
                                            ELSE df_top.rows[1]["Predmety"]]
                      /\ pc' = "done"
    /\ executed' = Append(executed, "show")
    /\ UNCHANGED << sheet, self_df, validation_errors, df, df_scored, df_top, df_display,
                    scoring_summary, st_errors, call, result >>

\* process_uploaded_file: except Exception as e: st.error(...)
HandleException ==
    /\ pc = "except"
    /\ st_errors' = Append(st_errors, Error("processing_exception", << >>))
    /\ pc' = "done"
    /\ UNCHANGED << sheet, self_df, validation_errors, df, df_scored, df_top, df_display,
                    scoring_summary, shown, executed, call, result >>

Next ==
    \/ ReadExcel
    \/ ReadExcelRaises
    \/ ValidateData
    \/ CleanData
    \/ LoadFailed
    \/ CalculateScores
    \/ GetTopNiches
    \/ FormatDisplay
    \/ GetScoringSummary
    \/ ShowResults
    \/ HandleException

Spec == Init /\ [][Next]_vars

----------------------------------------------------------------------------
(* The scorer on its own: every cleaned table, then the scoring stages.    *)

InitScorer ==
    /\ pc = "loaded"
    /\ df \in CleanTables
    /\ sheet = df
    /\ self_df = df
    /\ validation_errors = << >>
    /\ df_scored = None
    /\ df_top = None
    /\ df_display = None
    /\ scoring_summary = None
    /\ st_errors = << >>
    /\ shown = None
    /\ executed = << "read_excel", "validate", "clean" >>
    /\ call = None
    /\ result = None

NextScorer ==
    \/ CalculateScores
    \/ GetTopNiches
    \/ FormatDisplay
    \/ GetScoringSummary
    \/ ShowResults

SpecScorer == InitScorer /\ [][NextScorer]_vars

----------------------------------------------------------------------------
(* _clean_data on every sheet, then once more on the table it returned.    *)

InitClean ==
    /\ pc = "clean"
    /\ sheet \in Inputs
    /\ self_df = sheet
    /\ validation_errors = << >>
    /\ df = None
    /\ df_scored = None
    /\ df_top = None
    /\ df_display = None
    /\ scoring_summary = None
    /\ st_errors = << >>
    /\ shown = None
    /\ executed = << "read_excel", "validate" >>
    /\ call = None
    /\ result = None

\* self._clean_data(df) on the table the first call returned
CleanAgain ==
    /\ pc = "loaded"
    /\ df # None
    /\ result' = IF clean_raises(df)
                 THEN [raised |-> TRUE, table |-> None]
                 ELSE [raised |-> FALSE, table |-> clean_data(df)]
    /\ pc' = "cleaned_twice"
    /\ UNCHANGED << sheet, self_df, validation_errors, df, df_scored, df_top,
                    df_display, scoring_summary, st_errors, shown, executed, call >>

NextClean == CleanData \/ CleanAgain

SpecClean == InitClean /\ [][NextClean]_vars

----------------------------------------------------------------------------
(* Direct calls of _get_score_for_metric and of the category functions.    *)

MetricNames == DOMAIN SCORING_WEIGHTS

\* the values around every bound of a metric's rules, a negative one, NaN
ProbeValues(metric) ==
    {NaN, Num(-1)}
    \cup UNION {{Num(r.min - 1), Num(r.min), Num(r.min + 1),
                 Num(r.max - 1), Num(r.max)} : r \in Range(SCORING_WEIGHTS[metric])}

\* the sum of the metrics' largest weights
MaxWeight(metric) ==
    CHOOSE w \in {r.weight : r \in Range(SCORING_WEIGHTS[metric])} :
        \A r \in Range(SCORING_WEIGHTS[metric]) : r.weight <= w

MetricSeq ==
    << "vyruchka", "srednyaya_cena_s_prodazhami", "oborachivaemost",
       "procent_tovarov_s_dvizheniem", "procent_prodavcov_s_prodazhami",
       "vyruchka_na_prodavca" >>

MaxTotal == SumSeq([i \in DOMAIN MetricSeq |-> MaxWeight(MetricSeq[i])])

Calls ==
    {[fn |-> "get_score_for_metric", metric |-> m, value |-> v, score |-> 0] :
        m \in MetricNames, v \in UNION {ProbeValues(x) : x \in MetricNames}}
    \cup {[fn |-> "get_score_for_metric", metric |-> "net_takoy_metriki",
           value |-> v, score |-> 0] : v \in {NaN, Num(-1), Num(20)}}
    \cup {[fn |-> "get_category", metric |-> "", value |-> NaN, score |-> x] :
            x \in (0 - 1)..(MaxTotal + 1)}

InitCalls ==
    /\ pc = "call"
    /\ call \in Calls
    /\ result = None
    /\ sheet = None
    /\ self_df = None
    /\ validation_errors = << >>
    /\ df = None
    /\ df_scored = None
    /\ df_top = None
    /\ df_display = None
    /\ scoring_summary = None
    /\ st_errors = << >>
    /\ shown = None
    /\ executed = << >>

CallGetScore ==
    /\ pc = "call"
    /\ call.fn = "get_score_for_metric"
    /\ result' = [score |-> get_score_for_metric(call.metric, call.value)]
    /\ pc' = "returned"
    /\ UNCHANGED << sheet, self_df, validation_errors, df, df_scored, df_top, df_display,
                    scoring_summary, st_errors, shown, executed, call >>

CallGetCategory ==
    /\ pc = "call"
    /\ call.fn = "get_category"
    /\ result' = category_columns(call.score)
    /\ pc' = "returned"
    /\ UNCHANGED << sheet, self_df, validation_errors, df, df_scored, df_top, df_display,
                    scoring_summary, st_errors, shown, executed, call >>

NextCalls == CallGetScore \/ CallGetCategory

SpecCalls == InitCalls /\ [][NextCalls]_vars


----------------------------------------------------------------------------
(* Properties.                                                             *)

\* whether rule i of a metric's list holds the number v in [min, max)
RuleHolds(metric, i, v) ==
    SCORING_WEIGHTS[metric][i].min <= v /\ v < SCORING_WEIGHTS[metric][i].max

Balls(row) == [j \in DOMAIN BallColumns |-> row[BallColumns[j]]]

\* C2: in every record calculate_niche_scores produced, the total score is
\* the exact sum of the record's six per-metric scores, and lies between 0 and
\* the sum of the six metrics' largest configured weights.
C2_TotalIsSum ==
    df_scored # None =>
        \A i \in DOMAIN df_scored.rows :
            LET row == df_scored.rows[i]
            IN  /\ row["Obshchiy_ball"] = SumSeq(Balls(row))
                /\ 0 <= row["Obshchiy_ball"]
                /\ row["Obshchiy_ball"] <= MaxTotal

\* a scored table holding the scenario record: 8 + 15 + 15 + 15 + 10 + 9 = 72
C2_Witness ==
    /\ df_scored # None
    /\ \E i \in DOMAIN df_scored.rows :
          /\ Balls(df_scored.rows[i]) = << 8, 15, 15, 15, 10, 9 >>
          /\ df_scored.rows[i]["Obshchiy_ball"] = 72

\* whether category i holds the score in its inclusive range
CategoryHolds(i, score) ==
    COLOR_CATEGORIES[i].min <= score /\ score <= COLOR_CATEGORIES[i].max

\* C3: label, colour and emoji of a score all come from the first category in
\* configured order whose inclusive range holds the score; a score no category
\* holds gets the undefined label with the default colour and emoji.
C3_CategoryOfScore ==
    (pc = "returned" /\ call.fn = "get_category") =>
        LET hits == {i \in DOMAIN COLOR_CATEGORIES : CategoryHolds(i, call.score)}
        IN  IF hits = {}
            THEN /\ result["Kategoriya"] = "Neopredeleno"
                 /\ result["Cvet_kategorii"] = "#6b7280"
                 /\ result["Emodzi"] = "white"
            ELSE \E i \in hits :
                    /\ \A j \in hits : i <= j
                    /\ result["Kategoriya"] = COLOR_CATEGORIES[i].label
                    /\ result["Cvet_kategorii"] = COLOR_CATEGORIES[i].color
                    /\ result["Emodzi"] = COLOR_CATEGORIES[i].emoji

\* a score outside every category has been given the undefined category
C3_Witness ==
    /\ pc = "returned"
    /\ call.fn = "get_category"
    /\ call.score = MaxTotal + 1
    /\ result["Kategoriya"] = "Neopredeleno"


\* the position in the scored table of the record with this name
OrigPos(name) ==
    CHOOSE k \in DOMAIN df_scored.rows : df_scored.rows[k]["Predmety"] = name

\* C4: ranking is stable under ties: of two records of equal total score that
\* both appear in the output of get_top_niches, the one that came first in
\* the scored table has the smaller rank.
C4_StableTies ==
    df_top # None =>
        \A a, b \in DOMAIN df_top.rows :
            (a < b /\ df_top.rows[a]["Obshchiy_ball"] = df_top.rows[b]["Obshchiy_ball"])
                => OrigPos(df_top.rows[a]["Predmety"]) < OrigPos(df_top.rows[b]["Predmety"])

TopNames == {df_top.rows[i]["Predmety"] : i \in DOMAIN df_top.rows}

\* C5: get_top_niches returns exactly min(N, k) of the k scored records, in
\* non-increasing order of total score, no dropped record scoring strictly more
\* than a retained one, with ranks 1, 2, ..., min(N, k) in output order.
C5_TopN ==
    df_top # None =>
        LET k == Len(df_scored.rows)
            n == Len(df_top.rows)
        IN  /\ n = (IF MAX_RESULTS <= k THEN MAX_RESULTS ELSE k)
            /\ Cardinality(TopNames) = n
            /\ \A i \in 1..n :
                  /\ df_top.rows[i]["Poziciya"] = i
                  /\ \E j \in 1..k :
                        \A c \in DOMAIN df_scored.rows[j] :
                            df_top.rows[i][c] = df_scored.rows[j][c]
            /\ \A i \in 1..(n - 1) :
                  df_top.rows[i]["Obshchiy_ball"] >= df_top.rows[i + 1]["Obshchiy_ball"]
            /\ \A j \in 1..k :
                  df_scored.rows[j]["Predmety"] \notin TopNames =>
                      \A i \in 1..n :
                          df_scored.rows[j]["Obshchiy_ball"] <= df_top.rows[i]["Obshchiy_ball"]

\* a record was dropped, and a lower-placed record of the scored table made
\* it into the output ahead of a higher-placed one
C5_Witness ==
    /\ df_top # None
    /\ Len(df_scored.rows) > MAX_RESULTS
    /\ Len(df_top.rows) = MAX_RESULTS
    /\ df_scored.rows[1]["Predmety"] \notin TopNames
    /\ df_top.rows[1]["Obshchiy_ball"] > df_top.rows[2]["Obshchiy_ball"]

SummaryComputed == "summary" \in Range(executed)

\* the number of records of the full scored table in category i
InCategory(i) ==
    Cardinality({j \in DOMAIN df_scored.rows :
                    CategoryHolds(i, df_scored.rows[j]["Obshchiy_ball"])})

SummaryCoversFullSet ==
    /\ "total_niches" \in DOMAIN scoring_summary
    /\ scoring_summary["total_niches"] = Len(df_scored.rows)
    /\ "distribution" \in DOMAIN scoring_summary
    /\ Len(scoring_summary["distribution"]) = Len(COLOR_CATEGORIES)
    /\ \A i \in DOMAIN COLOR_CATEGORIES :
          /\ scoring_summary["distribution"][i].label = COLOR_CATEGORIES[i].label
          /\ scoring_summary["distribution"][i].count = InCategory(i)

\* C6 as stated: for every scored table, total_niches is the number of scored
\* records and the distribution has one entry per configured category, in
\* configured order, counting the records of the full scored set in its range.
C6_AsStated == SummaryComputed => SummaryCoversFullSet

\* C6: for every non-empty scored table the summary is computed over the full
\* scored set (total_niches is the number of scored records, even above N, and
\* the distribution has one entry per configured category, in configured
\* order, counting the records of the full set in its range, 0 when none);
\* for an empty scored table the summary is the empty mapping.
C6_SummaryOverFullSet ==
    SummaryComputed =>
        IF df_scored.rows = << >> THEN DOMAIN scoring_summary = {}
        ELSE SummaryCoversFullSet

\* more records than N, all counted, with one category above N and one at 0
C6_Witness ==
    /\ SummaryComputed
    /\ Len(df_scored.rows) > MAX_RESULTS
    /\ scoring_summary["total_niches"] > Len(df_top.rows)
    /\ \E i \in DOMAIN COLOR_CATEGORIES :
          scoring_summary["distribution"][i].count > MAX_RESULTS
    /\ \E i \in DOMAIN COLOR_CATEGORIES :
          scoring_summary["distribution"][i].count = 0


Validated == "validate" \in Range(executed)

ErrorKinds == {validation_errors[i].kind : i \in DOMAIN validation_errors}

\* the checks of _validate_data, stated on the sheet
FailsNonEmpty(t) == t.rows = << >> \/ t.columns = {}

MissingRequired(t) == {c \in Range(REQUIRED_COLUMNS) : c \notin t.columns}

EntirelyEmpty(t) ==
    {c \in Range(REQUIRED_COLUMNS) \cap t.columns :
        t.rows # << >> /\ \A i \in DOMAIN t.rows : isna(t.rows[i][c])}

\* C7 as stated: every check is evaluated for every input, and the error list
\* of a failed validation holds a message for every check the input fails.
\* (No cell value makes the coercion of check 4 raise, so no input fails it.)
C7_AsStated ==
    (Validated /\ validation_errors # << >>) =>
        /\ FailsNonEmpty(sheet) => "empty_file" \in ErrorKinds
        /\ MissingRequired(sheet) # {} => "missing_columns" \in ErrorKinds
        /\ EntirelyEmpty(sheet) # {} => "empty_columns" \in ErrorKinds

\* C7: validation fails fast on the emptiness check alone: an empty input
\* gets the single emptiness message and no other check is evaluated; for
\* every non-empty input the remaining checks are all evaluated and the error
\* list holds exactly one message for every check the input fails, the
\* missing-columns message naming the missing required columns and the
\* empty-columns message the required columns that hold no value.
C7_Accumulates ==
    Validated =>
        IF FailsNonEmpty(sheet)
        THEN validation_errors = << Error("empty_file", << >>) >>
        ELSE /\ ErrorKinds \subseteq {"missing_columns", "empty_columns"}
             /\ Len(validation_errors) = Cardinality(ErrorKinds)
             /\ "missing_columns" \in ErrorKinds <=> MissingRequired(sheet) # {}
             /\ "empty_columns" \in ErrorKinds <=> EntirelyEmpty(sheet) # {}
             /\ \A i \in DOMAIN validation_errors :
                   /\ validation_errors[i].kind = "missing_columns" =>
                         Range(validation_errors[i].cols) = MissingRequired(sheet)
                   /\ validation_errors[i].kind = "empty_columns" =>
                         Range(validation_errors[i].cols) = EntirelyEmpty(sheet)

\* a non-empty sheet failed two checks and both messages were recorded
C7_Witness ==
    /\ Validated
    /\ ~FailsNonEmpty(sheet)
    /\ Len(validation_errors) = 2
    /\ validation_errors[1].kind = "missing_columns"
    /\ validation_errors[2].kind = "empty_columns"

LaterStages == {"clean", "score", "rank", "format", "summary", "show"}

\* load_excel_file has returned
LoadReturned == pc \notin {"start", "validate", "clean", "call", "returned"}

\* a recorded validation error stops the run before cleaning
ErrorsShortCircuit ==
    validation_errors # << >> =>
        /\ df = None
        /\ Range(executed) \cap LaterStages = {}
        /\ df_scored = None /\ df_top = None /\ shown = None

\* C8 as stated: a run whose validation records an error returns no table and
\* never cleans, scores, ranks, summarizes or formats; and loading ends either
\* with a cleaned table and an empty error list or with no table and a
\* non-empty error list.
C8_AsStated ==
    /\ ErrorsShortCircuit
    /\ LoadReturned =>
          \/ df # None /\ validation_errors = << >>
          \/ df = None /\ validation_errors # << >>

\* C8: a run whose validation records an error returns no table and never
\* cleans, scores, ranks, summarizes or formats; loading ends with a cleaned
\* table and an empty error list, or with no table and a non-empty error
\* list, or, when reading or cleaning raised, with no table, an empty error
\* list and the exception's message shown; never with a table and errors.
C8_ShortCircuit ==
    /\ ErrorsShortCircuit
    /\ LoadReturned =>
          \/ /\ df # None
             /\ validation_errors = << >>
             /\ "clean" \in Range(executed)
          \/ df = None /\ validation_errors # << >>
          \/ /\ df = None
             /\ validation_errors = << >>
             /\ Error("load_exception", << >>) \in Range(st_errors)

\* a run that ended on validation errors, each shown, without a table
C8_Witness ==
    /\ pc = "done"
    /\ validation_errors # << >>
    /\ df = None
    /\ Len(st_errors) > Len(validation_errors)
    /\ executed = << "read_excel", "validate" >>

\* the columns _clean_data coerces and fills
CleanedColumns(t) == Range(numeric_columns) \cap t.columns

\* what coercion and filling make of a raw cell
CleanedValue(cell) ==
    IF cell.k = "num" THEN cell
    ELSE IF cell.k = "str" /\ cell.s \in DOMAIN ParseNumber
         THEN Num(ParseNumber[cell.s])
    ELSE Num(0)

\* C9 as stated: the cleaned table holds no negative metric value.
C9_AsStated ==
    df # None =>
        \A i \in DOMAIN df.rows :
            \A c \in ScorerColumns \cap df.columns :
                ~(df.rows[i][c].k = "num" /\ df.rows[i][c].n < 0)

\* C9: after cleaning, every value of the columns _clean_data coerces and
\* fills is a number: a missing or non-numeric raw value has become 0 and a
\* numeric raw value is kept as it is, a negative one included.
C9_CleanedNumbers ==
    df # None =>
        \A i \in DOMAIN df.rows :
            /\ \A c \in CleanedColumns(df) : df.rows[i][c].k = "num"
            /\ \E q \in DOMAIN sheet.rows :
                  /\ sheet.rows[q]["Predmety"] = df.rows[i]["Predmety"]
                  /\ \A c \in CleanedColumns(df) :
                        df.rows[i][c] = CleanedValue(sheet.rows[q][c])

\* a cleaned table that holds a negative revenue beside a missing one made 0
C9_Witness ==
    /\ df # None
    /\ "clean" \in Range(executed)
    /\ \E i \in DOMAIN sheet.rows : sheet.rows[i]["Vyruchka"] = NaN
    /\ \E i \in DOMAIN df.rows : df.rows[i]["Vyruchka"] = Num(-5)

\* C10: after cleaning, none of the six raw values the scorer reads is missing
\* in any row: every missing or non-coercible entry has been replaced by 0.
C10_NoMissingMetric ==
    df # None =>
        \A i \in DOMAIN df.rows :
            \A c \in ScorerColumns : df.rows[i][c].k = "num"

----------------------------------------------------------------------------
(* Cleaning: names, duplicates, order, index.                              *)

\* _clean_data has returned a table in this run
Cleaned == "clean" \in Range(executed) /\ df # None

\* a name cell that is neither missing nor blank after trimming
NamePresent(cell) == ~isna(cell) /\ (cell.k = "str" => strip(cell.s) # "")

\* the position of the first row of t that carries the name
FirstRow(t, name) ==
    CHOOSE i \in DOMAIN t.rows :
        /\ t.rows[i]["Predmety"] = name
        /\ \A j \in 1..(i - 1) : t.rows[j]["Predmety"] # name

\* C11: the table _clean_data returns for a validated sheet has no two rows
\* of the same name and no row with a missing or blank name; it holds, for
\* every present name of the sheet, the first row of the sheet with that name,
\* the kept rows in their order in the sheet, labelled 0, 1, 2, ...
C11_KeepFirst ==
    Cleaned =>
        LET names == [i \in DOMAIN df.rows |-> df.rows[i]["Predmety"]]
            kept  == {sheet.rows[i]["Predmety"] : i \in DOMAIN sheet.rows}
        IN  /\ \A i, j \in DOMAIN names : names[i] = names[j] => i = j
            /\ \A i \in DOMAIN names : NamePresent(names[i])
            /\ Range(names) = {c \in kept : NamePresent(c)}
            /\ \A i, j \in DOMAIN names :
                    i < j => FirstRow(sheet, names[i]) < FirstRow(sheet, names[j])
            /\ \A i \in DOMAIN names : \A c \in sheet.columns :
                    LET raw == sheet.rows[FirstRow(sheet, names[i])][c]
                    IN  (c \notin Range(numeric_columns) \/ raw.k = "num")
                            => df.rows[i][c] = raw
            /\ df.index = [i \in DOMAIN df.rows |-> i - 1]

\* a blank name, then the same name twice with different revenues: only the
\* second row of the sheet is kept, as row 0
C11_Witness ==
    /\ Cleaned
    /\ Len(sheet.rows) = 3
    /\ ~NamePresent(sheet.rows[1]["Predmety"])
    /\ sheet.rows[2]["Predmety"] = sheet.rows[3]["Predmety"]
    /\ sheet.rows[2]["Vyruchka"] = Num(-5)
    /\ sheet.rows[3]["Vyruchka"] = Num(5000000)
    /\ Len(df.rows) = 1
    /\ df.rows[1]["Vyruchka"] = Num(-5)
    /\ df.index = << 0 >>

\* C12: cleaning is idempotent: _clean_data applied to the table _clean_data
\* returned gives that same table again (rows, order, values, index).
C12_Idempotent ==
    pc = "cleaned_twice" => (~result.raised /\ result.table = df)

\* short of the second call raising, the second cleaning changes nothing
C12_IdempotentUnlessRaised ==
    (pc = "cleaned_twice" /\ ~result.raised) => result.table = df

----------------------------------------------------------------------------
(* A sheet of headers without data rows.                                   *)

HeadersOnly ==
    sheet # None /\ sheet.columns = AllColumns /\ sheet.rows = << >>

\* C13 as stated: a sheet with every required header and no data row runs
\* through the whole pipeline without a failure and ends with an empty top
\* table and a summary.
C13_AsStated ==
    (HeadersOnly /\ pc = "done") =>
        /\ st_errors = << >>
        /\ df_top # None /\ df_top.rows = << >>
        /\ scoring_summary # None

\* C13: a sheet with every required header and no data row fails validation
\* with the emptiness message alone; loading returns no table, no later stage
\* runs, nothing raises, and the run ends on the could-not-load message with
\* no top table and no summary.
C13_HeadersOnlyRejected ==
    HeadersOnly =>
        /\ Validated => validation_errors = << Error("empty_file", << >>) >>
        /\ Range(executed) \cap LaterStages = {}
        /\ df = None /\ df_scored = None /\ df_top = None
        /\ scoring_summary = None /\ shown = None
        /\ pc # "except"
        /\ pc = "done" => st_errors = << Error("load_failed", << >>) >>

C13_Witness ==
    /\ HeadersOnly
    /\ pc = "done"
    /\ validation_errors = << Error("empty_file", << >>) >>
    /\ st_errors = << Error("load_failed", << >>) >>

----------------------------------------------------------------------------
(* Unexpected failures.                                                    *)

LoadRaised == Error("load_exception", << >>) \in Range(st_errors)

ProcessingRaised == Error("processing_exception", << >>) \in Range(st_errors)

\* C14 as stated: a run in which any step raised ends with exactly one
\* failure message and with nothing of the results rendered.
C14_AsStated ==
    (pc = "done" /\ (LoadRaised \/ ProcessingRaised)) =>
        /\ Len(st_errors) = 1
        /\ shown = None

\* C14: a run in which a step raised aborts at that step. When reading or
\* cleaning raised, two messages are shown (the loader's, then the
\* could-not-load one) and no results. When scoring, ranking, formatting or
\* summarizing raised, one message is shown and no results. When rendering
\* raised, one message is shown below what show_results had rendered by
\* then (success box, summary metrics, distribution), without the table.
C14_FailureHandling ==
    /\ (pc = "done" /\ LoadRaised) =>
           /\ st_errors = << Error("load_exception", << >>),
                             Error("load_failed", << >>) >>
           /\ Range(executed) \cap {"score", "rank", "format", "summary", "show"} = {}
           /\ shown = None
    /\ (pc = "done" /\ ProcessingRaised) =>
           /\ st_errors = << Error("processing_exception", << >>) >>
           /\ IF "show" \in Range(executed)
              THEN /\ shown # None
                   /\ ~shown.filtered
                   /\ shown.table = << >>
                   /\ ~shown.warning
              ELSE /\ shown = None
                   /\ executed[Len(executed)] = "score"
                   /\ df_scored = None /\ df_top = None /\ scoring_summary = None
    /\ (pc = "done" /\ shown # None /\ shown.filtered) => st_errors = << >>

\* a search in a top table whose only name is a number: the metrics and the
\* distribution are on the page when the failure message is shown
C14_Witness ==
    /\ pc = "done"
    /\ ProcessingRaised
    /\ shown # None
    /\ shown.metrics
    /\ shown.total_niches = 1
    /\ shown.widgets.search_term = "a"
    /\ df_top.rows[1]["Predmety"] = Num(7)

----------------------------------------------------------------------------
(* Missing required columns.                                               *)

\* C15: for a sheet with rows and columns that lacks required columns,
\* validation fails, one message of the error list names every missing
\* required column, and nothing is cleaned or scored.
C15_MissingColumnsNamed ==
    (Validated /\ ~FailsNonEmpty(sheet) /\ MissingRequired(sheet) # {}) =>
        /\ \E i \in DOMAIN validation_errors :
               /\ validation_errors[i].kind = "missing_columns"
               /\ Range(validation_errors[i].cols) = MissingRequired(sheet)
        /\ \E i \in DOMAIN st_errors : st_errors[i].kind = "missing_columns"
        /\ df = None /\ df_scored = None /\ df_top = None
        /\ Range(executed) \cap LaterStages = {}

\* a sheet of two rows without its two last scored columns
C15_Witness ==
    /\ pc = "done"
    /\ Len(sheet.rows) = 2
    /\ MissingRequired(sheet) = {"pct_tovarov", "Prodavcy"}
    /\ \E i \in DOMAIN validation_errors :
           validation_errors[i] =
               Error("missing_columns", << "pct_tovarov", "Prodavcy" >>)
    /\ df = None

----------------------------------------------------------------------------
(* The best niche and the threshold counts of the summary.                 *)

\* C16: for a scored table with rows, top_score_niche is the name of the
\* first row, in the order of the cleaned table, whose total score is the
\* largest of the whole scored table; excellent_niches counts the rows with a
\* total of 70 or more and good_niches those with a total from 50 up to, not
\* including, 70.
C16_TopScoreNiche ==
    (SummaryComputed /\ df_scored.rows # << >>) =>
        LET totals == [i \in DOMAIN df_scored.rows |->
                          df_scored.rows[i]["Obshchiy_ball"]]
        IN  /\ \E i \in DOMAIN totals :
                   /\ \A j \in DOMAIN totals : totals[j] <= totals[i]
                   /\ \A j \in 1..(i - 1) : totals[j] < totals[i]
                   /\ scoring_summary["top_score_niche"] = df.rows[i]["Predmety"]
            /\ scoring_summary["excellent_niches"]
                   = Cardinality({i \in DOMAIN totals : totals[i] >= 70})
            /\ scoring_summary["good_niches"]
                   = Cardinality({i \in DOMAIN totals :
                                     totals[i] >= 50 /\ totals[i] < 70})

\* a good niche followed by two excellent ones of equal score: the second
\* row is the best niche
C16_Witness ==
    /\ SummaryComputed
    /\ Len(df_scored.rows) = 3
    /\ df_scored.rows[1]["Obshchiy_ball"] < df_scored.rows[2]["Obshchiy_ball"]
    /\ df_scored.rows[2]["Obshchiy_ball"] = df_scored.rows[3]["Obshchiy_ball"]
    /\ scoring_summary["top_score_niche"] = df.rows[2]["Predmety"]
    /\ scoring_summary["excellent_niches"] = 2
    /\ scoring_summary["good_niches"] = 1

----------------------------------------------------------------------------
(* The stages and the tables they are given.                               *)

\* C17: no stage changes the table it is given: _clean_data leaves the
\* parsed sheet as it was read, calculate_niche_scores leaves the cleaned
\* table as it was returned, and get_top_niches, format_display_table,
\* get_scoring_summary and show_results leave the scored table as it was
\* scored (the rank column is on the top table only); format_display_table
\* and show_results leave the top table as it was ranked.
C17_NoStageChangesItsInput ==
    [][/\ pc = "clean" => sheet' = sheet
       /\ pc = "loaded" => df' = df
       /\ pc \in {"top", "format", "summary", "show"} =>
              /\ df_scored' = df_scored
              /\ df' = df
              /\ "Poziciya" \notin df_scored'.columns
       /\ pc \in {"format", "summary", "show"} => df_top' = df_top]_vars

\* a finished run in which every stage produced a table different from the
\* one it was given: cleaning dropped a row, scoring added columns, ranking
\* reordered the rows and added the rank
C17_Witness ==
    /\ pc = "done"
    /\ "show" \in Range(executed)
    /\ Len(df.rows) < Len(sheet.rows)
    /\ Len(df_top.rows) = 2
    /\ df_scored.columns # df.columns
    /\ df_top.rows[1]["Predmety"] # df_scored.rows[1]["Predmety"]
    /\ "Poziciya" \in df_top.columns
    /\ "Poziciya" \notin df_scored.columns


============================================================================
